---- MODULE Spec2Model ----
(***************************************************************************)
(* AirBridge: the browser client (App component, src/unnamed/part_001      *)
(* lines 1-955) and the signaling server (src/unnamed/part_002).           *)
(*                                                                         *)
(* Each client is one record `app[c]` whose fields carry the names of the  *)
(* component's state hooks and refs.  Every handler of the component is a  *)
(* pure operator from the record before the handler to the record after    *)
(* it; an action applies one handler to one client.  The WebRTC link       *)
(* (simple-peer) and socket.io are the environment: they deliver events.   *)
(***************************************************************************)
EXTENDS Integers, Sequences, FiniteSets, TLC

VARIABLES app, wire, rooms, socketRooms, online, inbox

vars == <<app, wire, rooms, socketRooms, online, inbox>>

(* ------------------------------ bounds -------------------------------- *)

MaxLinks == 3

MaxTimers == 2

MaxSignals == 3

MaxFileSize == 3

MaxSends == 2

MaxPayloads == 4

MaxSelections == 1

MaxJoins == 1
MaxInFlight == 2

(* --------------------------- program constants ------------------------ *)

MAX_RECONNECT_ATTEMPTS == 3

(* 64 * 1024 in the source; scaled so that a file of a few bytes spans     *)
(* several chunks, a last short chunk included.                            *)
CHUNK_SIZE == 2

Clients == {"c1", "c2", "c3"}

RoomIds == {"r1", "r2"}

Null == 0

ConnectionState ==
  {"DISCONNECTED", "SIGNALING", "CONNECTING", "CONNECTED", "FAILED", "RECONNECTING"}

(* The socket handlers are registered once, by the effect with the empty   *)
(* dependency list (lines 83-189).  They call the createPeer and           *)
(* handlePeerDisconnection of the first render, and every link handler is  *)
(* created inside that createPeer; the `connectionState` those closures    *)
(* read is the first render's constant, the initial state of line 28,      *)
(* whatever setConnectionState has published since.                        *)
closureConnectionState == "DISCONNECTED"

(* ------------------------------ signals ------------------------------- *)

SignalKinds == {"offer", "answer", "candidate"}

IsDescription(sig) == sig.type = "answer" \/ sig.type = "offer"

IsCandidate(sig) == sig.type = "candidate"

(* ------------------------------- links -------------------------------- *)

(* A link object: the flag it was constructed with, what the transport     *)
(* knows of it, the signals handed to it so far, each numbered by its      *)
(* arrival at this link's handler, and whether it has emitted its own      *)
(* description (trickle is off, line 236: one 'signal' event per link).    *)
NewLink(initiator) ==
  [initiator |-> initiator, destroyed |-> FALSE, connected |-> FALSE,
   arrivals |-> 0, signalled |-> <<>>, emitted |-> FALSE]

(* A destroyed link takes no signal and delivers no event any more. *)
Destroyed(link) ==
  [link EXCEPT !.destroyed = TRUE, !.connected = FALSE, !.arrivals = 0,
               !.signalled = <<>>]

LiveLinks(s) == {l \in 1..Len(s.links) : ~s.links[l].destroyed}

HasRemoteDescription(link) ==
  \E i \in 1..Len(link.signalled) : IsDescription(link.signalled[i])

(* ------------------------- files and payloads ------------------------- *)

(* Two byte values are enough to tell payloads apart: "7" is a digit, so a *)
(* chunk made of "7"s alone is the text of a JSON number; "x" is not JSON. *)
Byte == {"7", "x"}

ByteSeqs(n) == UNION {[1..k -> Byte] : k \in 0..n}

Files == {[name |-> "a.bin", bytes |-> b] : b \in ByteSeqs(MaxFileSize)}

NoFile == [name |-> "", bytes |-> <<>>]

NoJSON == [type |-> "", name |-> "", size |-> 0]

(* JSON.stringify(v): a string payload holding the text of v. *)
JSONStringify(v) == [text |-> TRUE, json |-> v, bytes |-> <<>>]

(* A binary payload (ArrayBuffer). *)
Binary(b) == [text |-> FALSE, json |-> NoJSON, bytes |-> b]

IsJSONNumber(b) == Len(b) > 0 /\ \A i \in 1..Len(b) : b[i] = "7"

(* JSON.parse(data.toString()): the text of a record parses to the record, *)
(* bytes that spell a number parse to that number (a value with no `type`),*)
(* anything else throws.                                                  *)
JSONParse(data) ==
  IF data.text THEN [ok |-> TRUE, value |-> data.json]
  ELSE IF IsJSONNumber(data.bytes) THEN [ok |-> TRUE, value |-> NoJSON]
  ELSE [ok |-> FALSE, value |-> NoJSON]

DataLength(data) == Len(data.bytes)

(* The slice that runs to the end of the buffer whatever its length. *)
TakeRest(a, b) == b

Min(a, b) == IF a < b THEN a ELSE b

(* A progress value: the number (num / den) * 100 as JavaScript computes   *)
(* it, so that a zero denominator gives Infinity (num > 0) or NaN (0 / 0). *)
Percent(num, den) == [num |-> num, den |-> den]

Zero == Percent(0, 1)

Hundred == Percent(1, 1)

IsNaN(p) == p.den = 0 /\ p.num = 0

IsInfinity(p) == p.den = 0 /\ p.num > 0

(* p <= q on numbers; every comparison with NaN is false. *)
Leq(p, q) ==
  /\ ~IsNaN(p)
  /\ ~IsNaN(q)
  /\ IF IsInfinity(q) THEN TRUE
     ELSE IF IsInfinity(p) THEN FALSE
     ELSE p.num * q.den <= q.num * p.den

(* Math.min(p, q) *)
MathMin(p, q) ==
  IF IsNaN(p) THEN p ELSE IF IsNaN(q) THEN q ELSE IF Leq(p, q) THEN p ELSE q

RECURSIVE Concat(_)
Concat(chunks) ==
  IF chunks = <<>> THEN <<>> ELSE Head(chunks).bytes \o Concat(Tail(chunks))

(* ------------------------- the client after mount --------------------- *)

AppInit ==
  [connected |-> FALSE, socket |-> FALSE, currentRoom |-> "",
   connectionState |-> "DISCONNECTED", isInitiator |-> FALSE,
   peerRef |-> Null, iceCandidateQueue |-> <<>>,
   remoteDescriptionSet |-> FALSE, reconnectAttempts |-> 0,
   reconnectTimeout |-> Null, isReconnecting |-> FALSE,
   links |-> <<>>, timers |-> {}, timersCreated |-> 0,
   snapshotDue |-> FALSE, inServerRoom |-> FALSE, linkFailures |-> 0,
   lastLinkEvent |-> "none", signalTick |-> FALSE,
   selectedFile |-> NoFile, sending |-> FALSE, receiving |-> FALSE,
   receivingFileName |-> "", fileChunks |-> <<>>, receivedBytes |-> 0,
   totalFileSize |-> 0,
   sendProgress |-> Zero, receiveProgress |-> Zero,
   sends |-> <<>>, written |-> <<>>, selections |-> 0, dropTimers |-> <<>>,
   artifacts |-> <<>>, metadataSeen |-> FALSE, assemblies |-> 0,
   remotePayloads |-> 0, joins |-> 0,
   requests |-> [t \in Clients |-> "none"]]

(* ----------------------- connection state machine --------------------- *)

createPeer(s, initiator) ==
  [s EXCEPT !.iceCandidateQueue = <<>>,
            !.remoteDescriptionSet = FALSE,
            !.links = Append(@, NewLink(initiator)),
            !.peerRef = Len(s.links) + 1]

(* if (peerRef.current) { peerRef.current.destroy(); peerRef.current = null } *)
DestroyPeerRef(s) ==
  IF s.peerRef # Null
    THEN [s EXCEPT !.links[s.peerRef] = Destroyed(@), !.peerRef = Null]
    ELSE s

ClearTimeout(s, id) == [s EXCEPT !.timers = {t \in @ : t.id # id}]

handlePeerDisconnection(s) ==
  [DestroyPeerRef([s EXCEPT !.connectionState = "DISCONNECTED"])
     EXCEPT !.iceCandidateQueue = <<>>, !.remoteDescriptionSet = FALSE]

attemptReconnection(s, initiator) ==
  IF s.reconnectAttempts >= MAX_RECONNECT_ATTEMPTS
    THEN [s EXCEPT !.connectionState = "FAILED", !.isReconnecting = FALSE]
    ELSE [s EXCEPT !.reconnectAttempts = @ + 1,
                   !.isReconnecting = TRUE,
                   !.connectionState = "RECONNECTING",
                   !.timersCreated = @ + 1,
                   !.reconnectTimeout = s.timersCreated + 1,
                   !.timers = @ \cup {[id |-> s.timersCreated + 1,
                                       initiator |-> initiator]}]

(* The callback of the reconnection timer. *)
ReconnectTimerCallback(s, t) ==
  createPeer([s EXCEPT !.timers = @ \ {t}], t.initiator)

OnSocketConnect(s) ==
  [s EXCEPT !.connected = TRUE, !.socket = TRUE,
            !.connectionState = "DISCONNECTED"]

OnSocketDisconnect(s) ==
  [s EXCEPT !.connected = FALSE, !.connectionState = "DISCONNECTED"]

(* The test of line 104 with its bound off by one. *)
OnRoomUsersOffByOne(s, users) ==
  IF Len(users) > 1
    THEN [s EXCEPT !.isInitiator = FALSE, !.connectionState = "SIGNALING"]
    ELSE [s EXCEPT !.isInitiator = TRUE, !.connectionState = "SIGNALING"]

OnRoomUsers(s, users) ==
  IF Len(users) > 0
    THEN [s EXCEPT !.isInitiator = FALSE, !.connectionState = "SIGNALING"]
    ELSE [s EXCEPT !.isInitiator = TRUE, !.connectionState = "SIGNALING"]

(* The guard without its test of the link reference. *)
NoPeerYetIgnoringLink(s) == ~s.isReconnecting

(* The guard of lines 123 and 135. *)
NoPeerYet(s) == s.peerRef = Null /\ ~s.isReconnecting

OnUserConnected(s) ==
  IF NoPeerYet(s)
    THEN createPeer([s EXCEPT !.connectionState = "CONNECTING"], TRUE)
    ELSE s

(* peer.signal(x): the link takes the signal; on a destroyed link it throws. *)
SignalThrows(s) == s.links[s.peerRef].destroyed

PeerSignal(s, sig) ==
  [s EXCEPT !.links[s.peerRef].signalled = Append(@, sig),
            !.links[s.peerRef].arrivals = IF sig.seq > @ THEN sig.seq ELSE @]

(* Line 164 without its test of the remote-description flag. *)
QueuesEveryCandidate(sig, remoteDescriptionSet) == IsCandidate(sig)

(* Line 164: whether the signal just applied is also put on the queue. *)
QueuesCandidate(sig, remoteDescriptionSet) ==
  IsCandidate(sig) /\ ~remoteDescriptionSet

(* Lines 152-160: the while loop that shifts the queue into the link. *)
RECURSIVE ProcessQueuedCandidates(_)
ProcessQueuedCandidates(s) ==
  IF Len(s.iceCandidateQueue) > 0
    THEN ProcessQueuedCandidates(
           PeerSignal([s EXCEPT !.iceCandidateQueue = Tail(@)],
                      Head(s.iceCandidateQueue)))
    ELSE s

OnSignal(s, sig) ==
  LET s1 == IF NoPeerYet(s)
              THEN createPeer([s EXCEPT !.connectionState = "CONNECTING"], FALSE)
              ELSE s
  IN IF s1.peerRef = Null \/ SignalThrows(s1)
       THEN s1
       ELSE LET s2 == PeerSignal(s1, sig)
                s3 == IF IsDescription(sig)
                        THEN ProcessQueuedCandidates(
                               [s2 EXCEPT !.remoteDescriptionSet = TRUE])
                        ELSE s2
            IN IF QueuesCandidate(sig, s3.remoteDescriptionSet)
                 THEN [s3 EXCEPT !.iceCandidateQueue = Append(@, sig)]
                 ELSE s3

OnPeerConnect(s) ==
  LET s1 == [s EXCEPT !.connectionState = "CONNECTED",
                      !.reconnectAttempts = 0,
                      !.isReconnecting = FALSE]
  IN IF s1.reconnectTimeout # Null
       THEN [ClearTimeout(s1, s1.reconnectTimeout) EXCEPT !.reconnectTimeout = Null]
       ELSE s1

(* `initiator` is the argument of the createPeer call that made the link. *)
OnPeerError(s, initiator) ==
  IF closureConnectionState = "CONNECTED"
    THEN s
    ELSE LET s1 == DestroyPeerRef(s)
         IN IF ~s1.isReconnecting
              THEN attemptReconnection(s1, initiator)
              ELSE s1

OnPeerClose(s, initiator) ==
  LET oldState == closureConnectionState
  IN IF oldState = "CONNECTED" \/ oldState = "CONNECTING"
       THEN LET s1 == DestroyPeerRef(s)
            IN IF ~s1.isReconnecting
                 THEN attemptReconnection(s1, initiator)
                 ELSE s1
       ELSE [s EXCEPT !.connectionState = "DISCONNECTED"]

joinRoom(s, roomId) ==
  IF s.socket /\ roomId # ""
    THEN [s EXCEPT !.currentRoom = roomId]
    ELSE s

LeaveOnClick(s) ==
  LET s1 == [DestroyPeerRef(s) EXCEPT !.currentRoom = "",
                                      !.connectionState = "DISCONNECTED",
                                      !.reconnectAttempts = 0,
                                      !.isReconnecting = FALSE]
  IN IF s1.reconnectTimeout # Null
       THEN ClearTimeout(s1, s1.reconnectTimeout)
       ELSE s1

(* ------------------------ transfer engine: sender --------------------- *)

(* A send() that never throws. *)
SendNeverThrows(s) == FALSE

(* peerRef.current.send(...) throws unless the link's channel is open. *)
SendThrows(s) ==
  s.links[s.peerRef].destroyed \/ ~s.links[s.peerRef].connected

(* What peerRef.current.write(chunk) can do: with no link the call itself  *)
(* throws; an open link buffers the chunk and answers whether more may     *)
(* follow; for any other link the answer is the transport's to give.       *)
WriteOutcomes(s) ==
  IF s.peerRef = Null THEN {"throw"}
  ELSE IF SendThrows(s) THEN {"throw", "true", "false"}
  ELSE {"true", "false"}

(* One payload handed to the link by send k; it reaches the other side     *)
(* when the channel is open.                                               *)
Put(s, k, data) ==
  [s EXCEPT !.written = Append(@, [send |-> k, link |-> s.peerRef,
                                   delivered |-> ~SendThrows(s),
                                   data |-> data])]

(* Step 1 left out. *)
SkipMetadata(s, file, k) == s

(* Lines 459-468: step 1 of sendFileDirectly. *)
SendMetadata(s, file, k) ==
  Put(s, k, JSONStringify([type |-> "metadata", name |-> file.name,
                           size |-> Len(file.bytes)]))

(* The closure of one sendFileDirectly call: the file, the offset, where   *)
(* the loop stands, what the last write answered, the link holding its     *)
(* drain listener, the event that made sendNextChunk run last, and the     *)
(* value this call last passed to setSendProgress. `aborted` is the flag   *)
(* of the signal of the AbortController made for this send (lines 449-450); *)
(* no code calls abort() on a controller, so the flag is never raised.     *)
NewSend(file, pc) ==
  [file |-> file, offset |-> 0, pc |-> pc, canContinue |-> TRUE,
   drainLink |-> Null, resumedBy |-> "none", published |-> Zero,
   aborted |-> FALSE]

(* sendFileDirectly up to `await file.arrayBuffer()`. *)
sendFileDirectly(s, file) ==
  IF file = NoFile \/ s.peerRef = Null
    THEN s
    ELSE LET k == Len(s.sends) + 1
             s1 == [s EXCEPT !.sending = TRUE, !.sendProgress = Zero]
         IN IF SendThrows(s1)
              THEN [s1 EXCEPT !.sending = FALSE,
                              !.sends = Append(@, NewSend(file, "failed"))]
              ELSE [SendMetadata(s1, file, k)
                      EXCEPT !.sends = Append(@, NewSend(file, "reading"))]

sendFile(s) ==
  IF s.selectedFile = NoFile \/ s.peerRef = Null
    THEN s
    ELSE sendFileDirectly(s, s.selectedFile)

handleFileSelect(s, file) == [s EXCEPT !.selectedFile = file]

(* The drop selects the file and schedules its send 100 ms later; timers   *)
(* of one delay fire in the order they were set.                           *)
handleDrop(s, file) ==
  IF s.connectionState = "CONNECTED" /\ ~s.sending /\ ~s.receiving
    THEN [s EXCEPT !.selectedFile = file, !.dropTimers = Append(@, file)]
    ELSE s

(* The callback of the oldest auto-send timer. *)
DropTimerCallback(s) ==
  sendFileDirectly([s EXCEPT !.dropTimers = Tail(@)], Head(s.dropTimers))

(* Lines 531-532: the progress published after a chunk. *)
SendProgressAfter(offset, byteLength) ==
  MathMin(Percent(offset, byteLength), Hundred)

(* Completion that leaves the progress as the last chunk set it. *)
ProgressKept(progress) == progress

(* Line 500: setSendProgress(100) on completion. *)
ProgressAtCompletion(progress) == Hundred

(* The timer scheduled whatever the write answered. *)
ResumeOnTimerAlways(canContinue) == "timer"

(* Lines 551-562: what resumes the loop after a write. *)
ResumeOn(canContinue) == IF canContinue THEN "timer" ELSE "drain"

(* One run of sendNextChunk for send k, called by `event`; `outcome` is    *)
(* what write() does.                                                      *)
sendNextChunk(s0, k, outcome, event) ==
  LET s == [s0 EXCEPT !.sends[k].resumedBy = event]
      loop == s.sends[k]
      byteLength == Len(loop.file.bytes)
      chunk == SubSeq(loop.file.bytes, loop.offset + 1,
                      Min(loop.offset + CHUNK_SIZE, byteLength))
  IN IF loop.aborted
       THEN [s EXCEPT !.sending = FALSE, !.sends[k].pc = "aborted"]
     ELSE IF loop.offset >= byteLength
       THEN [s EXCEPT !.sending = FALSE, !.selectedFile = NoFile,
                      !.sendProgress = ProgressAtCompletion(@),
                      !.sends[k].published = ProgressAtCompletion(s.sendProgress),
                      !.sends[k].pc = "done"]
     ELSE IF outcome = "throw"
       THEN [s EXCEPT !.sending = FALSE, !.sends[k].pc = "error"]
     ELSE LET canContinue == (outcome = "true")
          IN [Put(s, k, Binary(chunk))
                EXCEPT !.sends[k].offset = @ + Len(chunk),
                       !.sendProgress =
                          SendProgressAfter(loop.offset + Len(chunk), byteLength),
                       !.sends[k].published =
                          SendProgressAfter(loop.offset + Len(chunk), byteLength),
                       !.sends[k].canContinue = canContinue,
                       !.sends[k].pc = ResumeOn(canContinue),
                       !.sends[k].drainLink =
                          IF canContinue THEN Null ELSE s.peerRef]

(* The sends whose once('drain') listener sits on link l. *)
DrainListeners(s, l) ==
  {k \in 1..Len(s.sends) : s.sends[k].pc = "drain" /\ s.sends[k].drainLink = l}

(* 'drain' calls the listeners registered when it is emitted, in order. *)
RECURSIVE EmitDrain(_, _, _)
EmitDrain(s, ks, outs) ==
  IF ks = {} THEN s
  ELSE LET k == CHOOSE x \in ks : \A y \in ks : x <= y
       IN EmitDrain(sendNextChunk(s, k, outs[k], "drain"), ks \ {k}, outs)

(* ----------------------- transfer engine: receiver -------------------- *)

(* receivingFileName as assembleAndDownloadFile reads it: the function is  *)
(* the first render's (it is called from the link's data handler), so the  *)
(* name is the initial state of line 37.                                   *)
closureReceivingFileName == ""

assembleAndDownloadFile(s) ==
  [s EXCEPT !.artifacts = Append(@, [name |-> closureReceivingFileName,
                                     bytes |-> Concat(s.fileChunks)]),
            !.assemblies = @ + 1,
            !.receiving = FALSE]

(* Line 314. *)
TransferComplete(receivedBytes, totalFileSize) == receivedBytes >= totalFileSize

OnPeerData(s, data) ==
  LET parsed == JSONParse(data)
  IN IF parsed.ok
       THEN IF parsed.value.type = "metadata"
              THEN [s EXCEPT !.receivingFileName = parsed.value.name,
                             !.totalFileSize = parsed.value.size,
                             !.receivedBytes = 0,
                             !.fileChunks = <<>>,
                             !.receiving = TRUE,
                             !.receiveProgress = Zero,
                             !.metadataSeen = TRUE,
                             !.assemblies = 0]
              ELSE s
       ELSE LET s1 == [s EXCEPT !.fileChunks = Append(@, data),
                                !.receivedBytes = @ + DataLength(data),
                                !.receiveProgress =
                                   Percent(s.receivedBytes + DataLength(data),
                                           s.totalFileSize)]
            IN IF TransferComplete(s1.receivedBytes, s1.totalFileSize)
                 THEN assembleAndDownloadFile(s1)
                 ELSE s1

(* --------------------------- signaling server ------------------------- *)

(* `rooms` is the server's Map from room id to the Set of member ids (a    *)
(* Set keeps insertion order); `socketRooms[s]` is socket.rooms without    *)
(* the socket's own room; `inbox[s]` holds what has been emitted to s and  *)
(* not yet handled by it.                                                  *)
Members(r) == {rooms[r][i] : i \in 1..Len(rooms[r])}

SetAdd(seq, x) ==
  IF \E i \in 1..Len(seq) : seq[i] = x THEN seq ELSE Append(seq, x)

IsNot(x) == [y \in Clients |-> y # x]

(* Nothing taken out. *)
WithoutNothing(seq, x) == seq

Without(seq, x) ==
  LET keep == IsNot(x)
      F[i \in 0..Len(seq)] ==
        IF i = 0 THEN <<>>
        ELSE IF keep[seq[i]] THEN Append(F[i - 1], seq[i]) ELSE F[i - 1]
  IN F[Len(seq)]

Message(type, users, id) ==
  [type |-> type, users |-> users, id |-> id, payload |-> ""]

(* A relayed event: { from: socket.id, ...payload }. *)
Relayed(type, from, payload) ==
  [type |-> type, users |-> <<>>, id |-> from, payload |-> payload]

(* emit to every socket of `targets` *)
Emit(ib, targets, msg) ==
  [s \in Clients |-> IF s \in targets THEN Append(ib[s], msg) ELSE ib[s]]

(* socket.to(room) with the sender left in. *)
ToWithSender(joined, room, sender) == {s \in Clients : room \in joined[s]}

(* socket.to(room): the sockets joined to the room, but for the sender *)
To(joined, room, sender) == {s \in Clients : room \in joined[s]} \ {sender}

ServerJoinRoom(socket, roomId) ==
  LET joined == [socketRooms EXCEPT ![socket] = {roomId}]
      had == IF roomId \in DOMAIN rooms THEN rooms[roomId] ELSE <<>>
      roomMembers == SetAdd(had, socket)
  IN /\ socketRooms' = joined
     /\ rooms' = [r \in DOMAIN rooms \cup {roomId} |->
                    IF r = roomId THEN roomMembers ELSE rooms[r]]
     /\ inbox' = Emit(Emit(inbox, {socket},
                           Message("room-users", Without(roomMembers, socket), "")),
                      To(joined, roomId, socket),
                      Message("user-connected", <<>>, socket))
     /\ UNCHANGED online

(* On 'disconnect' the socket has already left its socket.io rooms. *)
ServerDisconnect(socket) ==
  LET joined == [socketRooms EXCEPT ![socket] = {}]
      mine == {r \in DOMAIN rooms : socket \in Members(r)}
      left == [r \in DOMAIN rooms |-> Without(rooms[r], socket)]
      notified == UNION {To(joined, r, socket) : r \in mine}
      counts == [s \in Clients |->
                   Cardinality({r \in mine : s \in To(joined, r, socket)})]
  IN /\ socketRooms' = joined
     /\ rooms' = [r \in {x \in DOMAIN rooms : left[x] # <<>>} |-> left[r]]
     /\ inbox' = [s \in Clients |->
                    IF s = socket THEN <<>>
                    ELSE inbox[s] \o
                         [i \in 1..counts[s] |->
                            Message("user-disconnected", <<>>, socket)]]
     /\ online' = online \ {socket}

(* io.emit: every connected socket. *)
IoEmit(joined, live, room) == live

(* io.to(room): every socket joined to the room; a connected socket is     *)
(* alone in the room named by its id (room names are taken to differ from  *)
(* socket ids).                                                            *)
IoTo(joined, live, room) ==
  {s \in live : s = room} \cup {s \in Clients : room \in joined[s]}

(* socket.rooms.forEach(room => room !== socket.id &&                      *)
(*                              socket.to(room).emit(...)) (lines 68-71    *)
(* and 78-82): one emission for each room the socket is joined to.         *)
Broadcast(ib, joined, socket, msg) ==
  LET counts == [s \in Clients |->
                   Cardinality({r \in joined[socket] :
                                  s \in To(joined, r, socket)})]
  IN [s \in Clients |-> ib[s] \o [i \in 1..counts[s] |-> msg]]

(* Lines 57-72; `to` is "" when the client sent none. *)
ServerSignal(ib, joined, live, socket, to, signal) ==
  LET msg == Relayed("signal", socket, signal)
  IN IF to # ""
       THEN Emit(ib, IoTo(joined, live, to), msg)
       ELSE Broadcast(ib, joined, socket, msg)

(* Lines 75-83. *)
ServerTransferRequest(ib, joined, socket, metadata) ==
  Broadcast(ib, joined, socket, Relayed("transfer-request", socket, metadata))

(* Lines 86-89. *)
ServerTransferAccepted(ib, joined, live, socket, to) ==
  Emit(ib, IoTo(joined, live, to), Relayed("transfer-accepted", socket, ""))

(* Lines 92-95. *)
ServerTransferRejected(ib, joined, live, socket, to, reason) ==
  Emit(ib, IoTo(joined, live, to), Relayed("transfer-rejected", socket, reason))

(* ------------------------------ actions ------------------------------- *)

Upd(c, s) == [app EXCEPT ![c] = s]

WithinBounds(s) ==
  /\ Len(s.links) <= MaxLinks
  /\ s.timersCreated <= MaxTimers
  /\ \A l \in 1..Len(s.links) : s.links[l].arrivals <= MaxSignals
  /\ Len(s.sends) <= MaxSends
  /\ s.selections <= MaxSelections
  /\ s.remotePayloads <= MaxPayloads
  /\ s.joins <= MaxJoins

Step(c, s) == WithinBounds(s) /\ app' = Upd(c, s)

serverVars == <<rooms, socketRooms, online, inbox>>

SocketConnect(c) ==
  /\ ~app[c].connected
  /\ Step(c, OnSocketConnect(app[c]))
  /\ UNCHANGED <<wire, serverVars>>

SocketDisconnect(c) ==
  /\ app[c].connected
  /\ Step(c, [OnSocketDisconnect(app[c]) EXCEPT !.inServerRoom = FALSE,
                                                !.snapshotDue = FALSE])
  /\ UNCHANGED <<wire, serverVars>>

(* The lobby view (line 594) is the only one that offers the join, and    *)
(* its button is disabled while the socket is not connected (line 635).   *)
JoinRoom(c, r) ==
  /\ app[c].currentRoom = ""
  /\ app[c].connected
  /\ app[c].socket
  /\ Step(c, [joinRoom(app[c], r) EXCEPT !.snapshotDue = TRUE,
                                         !.inServerRoom = TRUE])
  /\ UNCHANGED <<wire, serverVars>>

RoomUsers(c, users) ==
  /\ app[c].snapshotDue
  /\ Step(c, [OnRoomUsers(app[c], users) EXCEPT !.snapshotDue = FALSE])
  /\ UNCHANGED <<wire, serverVars>>

UserConnected(c) ==
  /\ app[c].inServerRoom
  /\ Step(c, OnUserConnected(app[c]))
  /\ UNCHANGED <<wire, serverVars>>

(* The number the next signal gets: its arrival index at the link that     *)
(* will take it (a link the handler creates takes it as its first).        *)
Arrived(s) ==
  IF s.peerRef # Null THEN s.links[s.peerRef].arrivals + 1 ELSE 1

Signal(c, kind) ==
  /\ app[c].inServerRoom
  /\ LET s == Arrived(app[c])
     IN Step(c, [OnSignal(app[c], [type |-> kind, seq |-> s])
                   EXCEPT !.signalTick = ~@])
  /\ UNCHANGED <<wire, serverVars>>

UserDisconnected(c) ==
  /\ app[c].inServerRoom
  /\ Step(c, handlePeerDisconnection(app[c]))
  /\ UNCHANGED <<wire, serverVars>>

(* A link connects only once it has been given the remote description. *)
PeerConnect(c, l) ==
  /\ l \in LiveLinks(app[c])
  /\ ~app[c].links[l].connected
  /\ HasRemoteDescription(app[c].links[l])
  /\ Step(c, OnPeerConnect([app[c] EXCEPT !.links[l].connected = TRUE,
                                          !.linkFailures = 0,
                                          !.lastLinkEvent = "connect"]))
  /\ UNCHANGED <<wire, serverVars>>

PeerError(c, l) ==
  /\ l \in LiveLinks(app[c])
  /\ Step(c, OnPeerError([app[c] EXCEPT !.linkFailures = @ + 1,
                                        !.lastLinkEvent = "error"],
                         app[c].links[l].initiator))
  /\ UNCHANGED <<wire, serverVars>>

(* 'close': the transport of link l is gone. *)
PeerClose(c, l) ==
  /\ l \in LiveLinks(app[c])
  /\ Step(c, OnPeerClose([app[c] EXCEPT !.links[l] = Destroyed(@),
                                        !.linkFailures = @ + 1,
                                        !.lastLinkEvent = "close"],
                         app[c].links[l].initiator))
  /\ UNCHANGED <<wire, serverVars>>

ReconnectTimer(c, t) ==
  /\ t \in app[c].timers
  /\ Step(c, ReconnectTimerCallback(app[c], t))
  /\ UNCHANGED <<wire, serverVars>>

(* The sharing view (line 655) is the only one that offers the Leave button. *)
Leave(c) ==
  /\ app[c].currentRoom # ""
  /\ Step(c, [LeaveOnClick(app[c]) EXCEPT !.linkFailures = 0,
                                          !.lastLinkEvent = "none"])
  /\ UNCHANGED <<wire, serverVars>>

(* The two ends of the data channel. *)
Remote(c) == IF c = "c1" THEN "c2" ELSE "c1"

WasDelivered(e) == e.delivered

(* The payloads handler output `s` has put on an open channel. *)
Transmitted(c, s) ==
  LET new == SelectSeq(SubSeq(s.written, Len(app[c].written) + 1, Len(s.written)),
                       WasDelivered)
  IN [i \in 1..Len(new) |-> new[i].data]

SendStep(c, s) ==
  /\ WithinBounds(s)
  /\ app' = Upd(c, s)
  /\ wire' = [wire EXCEPT ![Remote(c)] = @ \o Transmitted(c, s)]
  /\ UNCHANGED serverVars

(* The drop zone, with the file input and the Send button inside it, is    *)
(* rendered only in the sharing view, while the published state is         *)
(* CONNECTED (line 733) and nothing is being sent or received (line 884).  *)
TransferAreaShown(s) ==
  /\ s.currentRoom # ""
  /\ s.connectionState = "CONNECTED"
  /\ ~s.sending
  /\ ~s.receiving

SelectFile(c, file) ==
  /\ TransferAreaShown(app[c])
  /\ Step(c, [handleFileSelect(app[c], file) EXCEPT !.selections = @ + 1])
  /\ UNCHANGED <<wire, serverVars>>

DropFile(c, file) ==
  /\ TransferAreaShown(app[c])
  /\ Step(c, [handleDrop(app[c], file) EXCEPT !.selections = @ + 1])
  /\ UNCHANGED <<wire, serverVars>>

DropTimer(c) ==
  /\ app[c].dropTimers # <<>>
  /\ SendStep(c, DropTimerCallback(app[c]))

SendFileClick(c) ==
  /\ TransferAreaShown(app[c])
  /\ app[c].selectedFile # NoFile
  /\ SendStep(c, sendFile(app[c]))

(* file.arrayBuffer() resolves: the first call of sendNextChunk. *)
ArrayBufferResolved(c, k, outcome) ==
  /\ k \in 1..Len(app[c].sends)
  /\ app[c].sends[k].pc = "reading"
  /\ outcome \in WriteOutcomes(app[c])
  /\ SendStep(c, sendNextChunk(app[c], k, outcome, "start"))

(* setTimeout(sendNextChunk, 0) fires. *)
ChunkTimer(c, k, outcome) ==
  /\ k \in 1..Len(app[c].sends)
  /\ app[c].sends[k].pc = "timer"
  /\ outcome \in WriteOutcomes(app[c])
  /\ SendStep(c, sendNextChunk(app[c], k, outcome, "timer"))

(* The channel of link l reports that its buffer has drained. *)
Drain(c, l) ==
  /\ l \in LiveLinks(app[c])
  /\ DrainListeners(app[c], l) # {}
  /\ \E outs \in [DrainListeners(app[c], l) -> WriteOutcomes(app[c])] :
       SendStep(c, EmitDrain(app[c], DrainListeners(app[c], l), outs))

(* The link of c delivers the next payload to its 'data' handler. *)
PeerData(c) ==
  /\ wire[c] # <<>>
  /\ \E l \in LiveLinks(app[c]) : app[c].links[l].connected
  /\ app' = Upd(c, OnPeerData(app[c], Head(wire[c])))
  /\ wire' = [wire EXCEPT ![c] = Tail(@)]
  /\ UNCHANGED serverVars

(* Any payload the other peer may put on the channel. *)
Payloads ==
  {JSONStringify([type |-> "metadata", name |-> "a.bin", size |-> n]) :
     n \in 0..MaxFileSize}
  \cup {Binary(b) : b \in ByteSeqs(CHUNK_SIZE)}

RemoteWrites(c, data) ==
  /\ wire[c] = <<>>
  /\ Step(c, [app[c] EXCEPT !.remotePayloads = @ + 1])
  /\ wire' = [wire EXCEPT ![c] = <<data>>]
  /\ UNCHANGED serverVars

(* ------------------- one client and its environment ------------------- *)

Init ==
  /\ app = [c \in Clients |-> AppInit]
  /\ wire = [c \in Clients |-> <<>>]
  /\ rooms = <<>>
  /\ socketRooms = [c \in Clients |-> {}]
  /\ online = {}
  /\ inbox = [c \in Clients |-> <<>>]

Next ==
  \/ SocketConnect("c1")
  \/ SocketDisconnect("c1")
  \/ JoinRoom("c1", "r1")
  \/ \E users \in {<<>>, <<"c2">>} : RoomUsers("c1", users)
  \/ UserConnected("c1")
  \/ \E kind \in SignalKinds : Signal("c1", kind)
  \/ UserDisconnected("c1")
  \/ \E l \in 1..MaxLinks : PeerConnect("c1", l)
  \/ \E l \in 1..MaxLinks : PeerError("c1", l)
  \/ \E l \in 1..MaxLinks : PeerClose("c1", l)
  \/ \E t \in [id : 1..MaxTimers, initiator : BOOLEAN] : ReconnectTimer("c1", t)
  \/ Leave("c1")

Spec == Init /\ [][Next]_vars

(* --------------- two connected clients and a file transfer ------------ *)

(* A client as it is once the link over which it was paired has connected: *)
(* the first to join got the other's arrival and then its answer, the      *)
(* second got the offer.                                                   *)
Paired(initiator) ==
  [AppInit EXCEPT !.connected = TRUE, !.socket = TRUE, !.currentRoom = "r1",
                  !.inServerRoom = TRUE,
                  !.connectionState = "CONNECTED",
                  !.isInitiator = initiator,
                  !.remoteDescriptionSet = TRUE,
                  !.peerRef = 1,
                  !.links = <<[NewLink(initiator) EXCEPT
                                 !.connected = TRUE, !.arrivals = 1,
                                 !.signalled =
                                    <<[type |-> IF initiator THEN "answer"
                                                ELSE "offer",
                                       seq |-> 1]>>]>>]

InitTransfer ==
  /\ app = [c \in Clients |-> IF c = "c1" THEN Paired(TRUE)
                              ELSE IF c = "c2" THEN Paired(FALSE)
                              ELSE AppInit]
  /\ wire = [c \in Clients |-> <<>>]
  /\ rooms = <<>>
  /\ socketRooms = [c \in Clients |-> {}]
  /\ online = {}
  /\ inbox = [c \in Clients |-> <<>>]

NextTransfer ==
  \/ \E file \in Files : SelectFile("c1", file)
  \/ \E file \in Files : DropFile("c1", file)
  \/ DropTimer("c1")
  \/ SendFileClick("c1")
  \/ \E k \in 1..MaxSends, outcome \in {"throw", "true", "false"} :
       ArrayBufferResolved("c1", k, outcome)
  \/ \E k \in 1..MaxSends, outcome \in {"throw", "true", "false"} :
       ChunkTimer("c1", k, outcome)
  \/ Drain("c1", 1)
  \/ PeerData("c2")

SpecTransfer == InitTransfer /\ [][NextTransfer]_vars

(* ------------- a receiver fed by an arbitrary remote peer ------------- *)

NextReceiver ==
  \/ \E data \in Payloads : RemoteWrites("c2", data)
  \/ PeerData("c2")

SpecReceiver == InitTransfer /\ [][NextReceiver]_vars

(* ---------- a sender whose link can be lost and made again ------------ *)

(* The events by which client c loses its link, and the timer that makes  *)
(* the next one.                                                          *)
LossEvents(c) ==
  \/ UserDisconnected(c)
  \/ \E l \in 1..MaxLinks : PeerError(c, l)
  \/ \E l \in 1..MaxLinks : PeerClose(c, l)
  \/ \E t \in [id : 1..MaxTimers, initiator : BOOLEAN] : ReconnectTimer(c, t)

(* Files told apart by their length alone. *)
PlainFiles == {f \in Files : \A i \in 1..Len(f.bytes) : f.bytes[i] = "x"}

NextSendLoss ==
  \/ \E file \in PlainFiles : DropFile("c1", file)
  \/ DropTimer("c1")
  \/ SendFileClick("c1")
  \/ \E k \in 1..MaxSends, outcome \in {"throw", "true", "false"} :
       ArrayBufferResolved("c1", k, outcome)
  \/ \E k \in 1..MaxSends, outcome \in {"throw", "true", "false"} :
       ChunkTimer("c1", k, outcome)
  \/ \E l \in 1..MaxLinks : Drain("c1", l)
  \/ LossEvents("c1")

SpecSendLoss == InitTransfer /\ [][NextSendLoss]_vars

(* --------- a receiver whose link can be lost and made again ----------- *)

(* Metadata of a file that is not empty, and chunks told apart by their   *)
(* length alone.                                                          *)
PlainPayloads ==
  {JSONStringify([type |-> "metadata", name |-> "a.bin", size |-> n]) :
     n \in 1..MaxFileSize}
  \cup {Binary([i \in 1..k |-> "x"]) : k \in 1..CHUNK_SIZE}

(* The link is lost by the peer's departure, an error or a close; the     *)
(* next link is made when the peer joins again and is connected by its    *)
(* offer.                                                                 *)
NextReceiveLoss ==
  \/ \E data \in PlainPayloads : RemoteWrites("c2", data)
  \/ PeerData("c2")
  \/ UserDisconnected("c2")
  \/ \E l \in 1..MaxLinks : PeerError("c2", l)
  \/ \E l \in 1..MaxLinks : PeerClose("c2", l)
  \/ UserConnected("c2")
  \/ Signal("c2", "offer")
  \/ \E l \in 1..MaxLinks : PeerConnect("c2", l)

SpecReceiveLoss == InitTransfer /\ [][NextReceiveLoss]_vars

(* ------------------- the server and the clients of a room ------------- *)

RoomSocketConnect(c) ==
  /\ ~app[c].socket
  /\ Step(c, OnSocketConnect(app[c]))
  /\ online' = online \cup {c}
  /\ UNCHANGED <<wire, rooms, socketRooms, inbox>>

RoomSocketDisconnect(c) ==
  /\ c \in online
  /\ Step(c, OnSocketDisconnect(app[c]))
  /\ ServerDisconnect(c)
  /\ UNCHANGED wire

RoomJoin(c, r) ==
  /\ c \in online
  /\ app[c].currentRoom = ""
  /\ app[c].socket
  /\ Step(c, [joinRoom(app[c], r) EXCEPT !.snapshotDue = TRUE,
                                         !.inServerRoom = TRUE,
                                         !.joins = @ + 1])
  /\ ServerJoinRoom(c, r)
  /\ UNCHANGED wire

Handled(c) ==
  /\ inbox' = [inbox EXCEPT ![c] = Tail(@)]
  /\ UNCHANGED <<wire, rooms, socketRooms, online>>

DeliverRoomUsers(c) ==
  /\ inbox[c] # <<>>
  /\ Head(inbox[c]).type = "room-users"
  /\ Step(c, [OnRoomUsers(app[c], Head(inbox[c]).users)
                EXCEPT !.snapshotDue = FALSE])
  /\ Handled(c)

DeliverUserConnected(c) ==
  /\ inbox[c] # <<>>
  /\ Head(inbox[c]).type = "user-connected"
  /\ Step(c, OnUserConnected(app[c]))
  /\ Handled(c)

DeliverUserDisconnected(c) ==
  /\ inbox[c] # <<>>
  /\ Head(inbox[c]).type = "user-disconnected"
  /\ Step(c, handlePeerDisconnection(app[c]))
  /\ Handled(c)

NextRoom ==
  \/ \E c \in Clients : RoomSocketConnect(c)
  \/ \E c \in Clients : RoomSocketDisconnect(c)
  \/ \E c \in Clients, r \in RoomIds : RoomJoin(c, r)
  \/ \E c \in Clients : DeliverRoomUsers(c)
  \/ \E c \in Clients : DeliverUserConnected(c)
  \/ \E c \in Clients : DeliverUserDisconnected(c)
  \/ \E c \in Clients : Leave(c)

SpecRoom == Init /\ [][NextRoom]_vars

(* ------------------------- the server's relays ------------------------ *)

Reasons == {"declined", "busy"}

RelayedSignals == {"offer", "candidate"}

InFlight == Len(inbox["c1"]) + Len(inbox["c2"]) + Len(inbox["c3"])

(* `requests[t]` of socket d records where the latest transfer request of  *)
(* t relayed to d stands: "pending" once relayed, "decided" once d has     *)
(* emitted a decision naming t.                                            *)
Requested(socket) ==
  [c \in Clients |->
     IF Len(inbox'[c]) > Len(inbox[c])
       THEN [app[c] EXCEPT !.requests[socket] = "pending"]
       ELSE app[c]]

Decided(socket, to) ==
  IF to \in Clients /\ app[socket].requests[to] = "pending"
    THEN Upd(socket, [app[socket] EXCEPT !.requests[to] = "decided"])
    ELSE app

(* Lines 98-114: a socket goes. *)
ServerLeave(c) ==
  /\ c \in online
  /\ ServerDisconnect(c)
  /\ InFlight' <= MaxInFlight
  /\ app' = Upd(c, AppInit)
  /\ UNCHANGED wire

RelaySignal(c, to, signal) ==
  /\ c \in online
  /\ inbox' = ServerSignal(inbox, socketRooms, online, c, to, signal)
  /\ InFlight' <= MaxInFlight
  /\ UNCHANGED <<app, wire, rooms, socketRooms, online>>

RelayTransferRequest(c, metadata) ==
  /\ c \in online
  /\ inbox' = ServerTransferRequest(inbox, socketRooms, c, metadata)
  /\ InFlight' <= MaxInFlight
  /\ app' = Requested(c)
  /\ UNCHANGED <<wire, rooms, socketRooms, online>>

RelayTransferAccepted(c, to) ==
  /\ c \in online
  /\ inbox' = ServerTransferAccepted(inbox, socketRooms, online, c, to)
  /\ InFlight' <= MaxInFlight
  /\ app' = Decided(c, to)
  /\ UNCHANGED <<wire, rooms, socketRooms, online>>

RelayTransferRejected(c, to, reason) ==
  /\ c \in online
  /\ inbox' = ServerTransferRejected(inbox, socketRooms, online, c, to, reason)
  /\ InFlight' <= MaxInFlight
  /\ app' = Decided(c, to)
  /\ UNCHANGED <<wire, rooms, socketRooms, online>>

(* A client takes the next event off its socket. *)
Received(c) ==
  /\ inbox[c] # <<>>
  /\ Handled(c)
  /\ UNCHANGED app

(* Every socket is connected and has joined a room, in the order of the   *)
(* sockets' names, and the events of the joins have been taken.           *)
InitServer ==
  /\ app = [c \in Clients |-> AppInit]
  /\ wire = [c \in Clients |-> <<>>]
  /\ \E where \in [Clients -> RoomIds] :
       /\ online = Clients
       /\ socketRooms = [c \in Clients |-> {where[c]}]
       /\ rooms = [r \in {where[c] : c \in Clients} |->
                     SelectSeq(<<"c1", "c2", "c3">>,
                               LAMBDA c : where[c] = r)]
       /\ inbox = [c \in Clients |-> <<>>]

(* A client may name a socket, a room or nothing ("") as `to`. *)
NextSignalRelay ==
  \/ \E c \in Clients : ServerLeave(c)
  \/ \E c \in Clients : Received(c)
  \/ \E c \in Clients, to \in Clients \cup RoomIds \cup {""},
        signal \in RelayedSignals :
       RelaySignal(c, to, signal)

SpecSignalRelay == InitServer /\ [][NextSignalRelay]_vars

(* Two of the clients offer files; every client may decide, naming a      *)
(* socket or a room as `to`.                                              *)
NextConsent ==
  \/ \E c \in Clients : ServerLeave(c)
  \/ \E c \in Clients : Received(c)
  \/ \E c \in {"c1", "c2"} : RelayTransferRequest(c, "a.bin")
  \/ \E c \in Clients, to \in Clients \cup {"r1"} :
       RelayTransferAccepted(c, to)
  \/ \E c \in Clients, to \in Clients \cup {"r1"}, reason \in Reasons :
       RelayTransferRejected(c, to, reason)

SpecConsent == InitServer /\ [][NextConsent]_vars

(* ===================== claims on the connection machine =============== *)

(* C1 (as claimed): on every link, a candidate signal is applied only      *)
(* after a session description has been applied, candidates are applied in *)
(* their arrival order, and no signal is applied twice.                    *)
C1_CandidateBuffering ==
  \A c \in Clients : \A l \in LiveLinks(app[c]) :
    LET log == app[c].links[l].signalled
    IN /\ \A i \in 1..Len(log) :
            IsCandidate(log[i]) =>
              \E j \in 1..(i - 1) : IsDescription(log[j])
       /\ \A i, j \in 1..Len(log) :
            (i < j /\ IsCandidate(log[i]) /\ IsCandidate(log[j])) =>
              log[i].seq < log[j].seq
       /\ \A i, j \in 1..Len(log) : (i # j) => (log[i] # log[j])

(* C2 (as claimed): once MAX_RECONNECT_ATTEMPTS link failures have         *)
(* happened in a row, with no 'connect' between them, the connection state *)
(* is FAILED and no link recreation is scheduled.                          *)
C2_ReconnectionBound ==
  \A c \in Clients :
    app[c].linkFailures >= MAX_RECONNECT_ATTEMPTS =>
      (app[c].connectionState = "FAILED" /\ app[c].timers = {})

(* C7: a client never has two undestroyed links, the undestroyed link is   *)
(* the one peerRef holds, and createPeer runs only when every link made    *)
(* before has been destroyed.                                              *)
C7_SingleLink ==
  /\ [](\A c \in Clients :
          /\ Cardinality(LiveLinks(app[c])) <= 1
          /\ LiveLinks(app[c]) \subseteq {app[c].peerRef})
  /\ [][\A c \in Clients :
          Len(app'[c].links) > Len(app[c].links) => LiveLinks(app[c]) = {}]_vars

(* A link was created by the reconnection timer or by a later arrival      *)
(* after an earlier link had been destroyed.                               *)
C7_Witness ==
  \E c \in Clients :
    /\ Len(app[c].links) >= 2
    /\ app[c].peerRef \in LiveLinks(app[c])
    /\ app[c].links[1].destroyed

(* C8: whenever the connection state is CONNECTED, the queue of pending    *)
(* ICE candidates is empty.                                                *)
C8_QueueEmptyWhenConnected ==
  \A c \in Clients :
    app[c].connectionState = "CONNECTED" => app[c].iceCandidateQueue = <<>>

(* Connected over a link whose first signal was a candidate, which had to  *)
(* wait on the queue for the description.                                  *)
C8_Witness ==
  \E c \in Clients :
    /\ app[c].connectionState = "CONNECTED"
    /\ app[c].peerRef \in LiveLinks(app[c])
    /\ Len(app[c].links[app[c].peerRef].signalled) >= 2
    /\ IsCandidate(app[c].links[app[c].peerRef].signalled[1])

(* ======================== claims on the transfer ====================== *)

IsMetadataPayload(data) == data.text /\ data.json.type = "metadata"

(* C3: a chunk of a send whose previous write answered can-continue =      *)
(* false is written only by the run of sendNextChunk that the channel's    *)
(* drain notification starts, never by a timer.                            *)
C3_Backpressure ==
  [][\A c \in Clients : \A k \in 1..Len(app[c].sends) :
       (/\ app'[c].sends[k].offset > app[c].sends[k].offset
        /\ ~app[c].sends[k].canContinue)
       => app'[c].sends[k].resumedBy = "drain"]_vars

(* A send was held back by the channel and its next chunk went out on the  *)
(* drain notification.                                                     *)
C3_Witness ==
  \E c \in Clients : \E k \in 1..Len(app[c].sends) :
    /\ app[c].sends[k].resumedBy = "drain"
    /\ app[c].sends[k].offset > CHUNK_SIZE

(* C4 (as claimed): when the one send of a file has completed and the      *)
(* channel has delivered everything, the receiver has assembled an         *)
(* artifact and the chunks it received, concatenated in receipt order, are *)
(* the bytes of the file.                                                  *)
C4_RoundTrip ==
  (/\ Len(app["c1"].sends) = 1
   /\ app["c1"].sends[1].pc = "done"
   /\ wire["c2"] = <<>>)
  => /\ app["c2"].artifacts # <<>>
     /\ Concat(app["c2"].fileChunks) = app["c1"].sends[1].file.bytes

(* C5 (as claimed): a chunk payload delivered while no metadata is         *)
(* recorded for a transfer in progress changes neither the chunk buffer    *)
(* nor the byte count and assembles nothing.                               *)
C5_ChunkNeedsMetadata ==
  [][\A c \in Clients :
       (/\ wire[c] # <<>>
        /\ wire'[c] = Tail(wire[c])
        /\ ~JSONParse(Head(wire[c])).ok
        /\ ~app[c].receiving)
       => /\ app'[c].fileChunks = app[c].fileChunks
          /\ app'[c].receivedBytes = app[c].receivedBytes
          /\ app'[c].artifacts = app[c].artifacts]_vars

(* C9 (as claimed): after metadata announcing a size S > 0, nothing is     *)
(* assembled while fewer than S bytes have arrived, and once the chunks    *)
(* received add up to exactly S the artifact has been assembled exactly    *)
(* once.                                                                   *)
C9_AssembledExactlyOnce ==
  \A c \in Clients :
    (app[c].metadataSeen /\ app[c].totalFileSize > 0) =>
      /\ app[c].receivedBytes < app[c].totalFileSize => app[c].assemblies = 0
      /\ app[c].receivedBytes = app[c].totalFileSize => app[c].assemblies = 1

(* C10: every send that got past its metadata step has put exactly one     *)
(* metadata message on the link, and each of its chunks was written after  *)
(* that message.                                                           *)
C10_MetadataFirst ==
  \A c \in Clients : \A k \in 1..Len(app[c].sends) :
    app[c].sends[k].pc # "failed" =>
      LET w == app[c].written
          mine == {i \in 1..Len(w) : w[i].send = k}
          meta == {i \in mine : IsMetadataPayload(w[i].data)}
      IN /\ Cardinality(meta) = 1
         /\ \A i \in mine \ meta : \E j \in meta : j < i

(* A send that has written its metadata and more than one chunk. *)
C10_Witness ==
  \E c \in Clients : \E k \in 1..Len(app[c].sends) :
    /\ app[c].sends[k].pc = "done"
    /\ Cardinality({i \in 1..Len(app[c].written) :
                      app[c].written[i].send = k}) >= 3

(* =========================== claims on roles ========================== *)

(* The client has handled the room-users snapshot of its join to room r. *)
SnapshotProcessed(c, r) ==
  /\ app[c].currentRoom = r
  /\ \A i \in 1..Len(inbox[c]) : inbox[c][i].type # "room-users"

(* C6 (as claimed): when a room has exactly two members and both have      *)
(* processed their room-users snapshot, one of them is the Initiator and   *)
(* the other the Responder.                                                *)
C6_OneInitiatorOneResponder ==
  \A r \in DOMAIN rooms :
    (/\ Cardinality(Members(r)) = 2
     /\ \A c \in Members(r) : SnapshotProcessed(c, r))
    => \E a, b \in Members(r) :
         a # b /\ app[a].isInitiator /\ ~app[b].isInitiator

(* ======================== claims on chunking ========================== *)

(* The chunks send k has written so far, in the order of the writes. *)
ChunkWrites(w, k) ==
  LET F[i \in 0..Len(w)] ==
        IF i = 0 THEN <<>>
        ELSE IF w[i].send = k /\ ~IsMetadataPayload(w[i].data)
          THEN Append(F[i - 1], w[i].data.bytes)
          ELSE F[i - 1]
  IN F[Len(w)]

(* C11: the i-th chunk a send writes (i from 1) is the bytes                *)
(* ((i-1)*C, min(i*C, S)] of the file, so chunks go out in increasing       *)
(* offset order from 0, none is empty and all but the last have C bytes;    *)
(* a send that has completed has written exactly ceil(S/C) chunks.          *)
C11_Chunking ==
  \A c \in Clients : \A k \in 1..Len(app[c].sends) :
    LET f == app[c].sends[k].file.bytes
        S == Len(f)
        chunks == ChunkWrites(app[c].written, k)
        n == Len(chunks)
    IN /\ \A i \in 1..n :
            /\ (i - 1) * CHUNK_SIZE < S
            /\ chunks[i] = [j \in 1..((IF i * CHUNK_SIZE < S THEN i * CHUNK_SIZE
                                       ELSE S) - (i - 1) * CHUNK_SIZE)
                             |-> f[(i - 1) * CHUNK_SIZE + j]]
            /\ Len(chunks[i]) >= 1
            /\ (i < n => Len(chunks[i]) = CHUNK_SIZE)
       /\ app[c].sends[k].pc = "done" =>
            n = (S + CHUNK_SIZE - 1) \div CHUNK_SIZE

(* A completed send of a file that is not a multiple of the chunk size:     *)
(* several chunks, the last one short.                                      *)
C11_Witness ==
  \E c \in Clients : \E k \in 1..Len(app[c].sends) :
    /\ app[c].sends[k].pc = "done"
    /\ Len(app[c].sends[k].file.bytes) > CHUNK_SIZE
    /\ Len(app[c].sends[k].file.bytes) % CHUNK_SIZE # 0
    /\ Len(ChunkWrites(app[c].written, k)) >= 2

(* ======================== claims on progress ========================== *)

C13_ReceiveProgress ==
  [][\A c \in Clients :
       (/\ wire[c] # <<>>
        /\ wire'[c] = Tail(wire[c])
        /\ ~JSONParse(Head(wire[c])).ok
        /\ app[c].metadataSeen
        /\ app[c].assemblies = 0)
       => /\ app'[c].receivedBytes >= app[c].receivedBytes
          /\ Leq(app[c].receiveProgress, app'[c].receiveProgress)
          /\ app'[c].assemblies > 0 =>
               /\ Leq(app'[c].receiveProgress, Hundred)
               /\ Leq(Hundred, app'[c].receiveProgress)]_vars

(* ===================== claims on link events ========================== *)

(* The step is the delivery of link event `event` to client c. *)
LinkEventStep(c, event) ==
  /\ app'[c].linkFailures = app[c].linkFailures + 1
  /\ app'[c].lastLinkEvent = event

(* C14 (as claimed): an 'error' event of the link delivered while the       *)
(* connection state is CONNECTED leaves the link undestroyed and referenced,*)
(* the state CONNECTED, the timers and the attempt counter unchanged.       *)
C14_ErrorWhileConnected ==
  [][\A c \in Clients :
       (LinkEventStep(c, "error") /\ app[c].connectionState = "CONNECTED")
       => /\ LiveLinks(app'[c]) = LiveLinks(app[c])
          /\ app'[c].peerRef = app[c].peerRef
          /\ app'[c].connectionState = "CONNECTED"
          /\ app'[c].timers = app[c].timers
          /\ app'[c].reconnectAttempts = app[c].reconnectAttempts]_vars

(* C15 (as claimed): a 'close' event of the link delivered while the state  *)
(* is CONNECTED or CONNECTING, fewer than MAX_RECONNECT_ATTEMPTS attempts   *)
(* made and no reconnection under way, leaves no link referenced, the state *)
(* RECONNECTING and exactly one more recreation timer pending.              *)
C15_CloseReconnects ==
  [][\A c \in Clients :
       (/\ LinkEventStep(c, "close")
        /\ app[c].connectionState \in {"CONNECTED", "CONNECTING"}
        /\ app[c].reconnectAttempts < MAX_RECONNECT_ATTEMPTS
        /\ ~app[c].isReconnecting)
       => /\ app'[c].peerRef = Null
          /\ LiveLinks(app'[c]) = {}
          /\ app'[c].connectionState = "RECONNECTING"
          /\ Cardinality(app'[c].timers) = Cardinality(app[c].timers) + 1]_vars

(* C16: from a state whose connection state is FAILED, a step that is not   *)
(* the Leave button creates no link and leaves the state FAILED.            *)
C16_FailedTerminal ==
  [][\A c \in Clients :
       (app[c].connectionState = "FAILED" /\ app'[c].currentRoom # "")
       => /\ Len(app'[c].links) = Len(app[c].links)
          /\ app'[c].connectionState = "FAILED"]_vars

(* The case C16 is about: some client is in state FAILED. *)
C16_Failed == \E c \in Clients : app[c].connectionState = "FAILED"

(* The step is a click on the Leave button by client c. *)
LeaveStep(c) == app[c].currentRoom # "" /\ app'[c].currentRoom = ""

(* C17 (as claimed): after Leave the state is DISCONNECTED, no link is      *)
(* undestroyed or referenced, the attempt counter is 0, the reconnecting    *)
(* flag is cleared, no reconnection timer is pending, the candidate queue   *)
(* is empty and the remote-description flag is cleared.                     *)
C17_Leave ==
  [][\A c \in Clients :
       LeaveStep(c)
       => /\ app'[c].connectionState = "DISCONNECTED"
          /\ app'[c].peerRef = Null
          /\ LiveLinks(app'[c]) = {}
          /\ app'[c].reconnectAttempts = 0
          /\ ~app'[c].isReconnecting
          /\ app'[c].timers = {}
          /\ app'[c].iceCandidateQueue = <<>>
          /\ ~app'[c].remoteDescriptionSet]_vars

(* The step is the delivery of an inbound 'signal' message to client c. *)
SignalStep(c) == app'[c].signalTick # app[c].signalTick

(* C18 (as claimed): an inbound signal handled while no link is referenced  *)
(* creates a link with initiator = false, and that signal is the first the  *)
(* new link is given.                                                       *)
C18_LazyResponderLink ==
  [][\A c \in Clients :
       (SignalStep(c) /\ app[c].peerRef = Null)
       => /\ Len(app'[c].links) = Len(app[c].links) + 1
          /\ app'[c].peerRef = Len(app'[c].links)
          /\ ~app'[c].links[app'[c].peerRef].initiator
          /\ Len(app'[c].links[app'[c].peerRef].signalled) >= 1]_vars

(* ====================== more claims on roles ========================== *)

(* Client c stays in the room whose snapshot has fixed its role. *)
RoleFixed(c) ==
  /\ app[c].currentRoom # ""
  /\ ~app[c].snapshotDue
  /\ app'[c].currentRoom = app[c].currentRoom
  /\ ~app'[c].snapshotDue

(* C19 (as claimed): while a client stays in the room whose snapshot fixed  *)
(* its role, the role flag does not change and every link it creates has   *)
(* its initiator flag equal to the role flag.                               *)
C19_RoleImmutable ==
  [][\A c \in Clients :
       RoleFixed(c)
       => /\ app'[c].isInitiator = app[c].isInitiator
          /\ Len(app'[c].links) > Len(app[c].links) =>
               app'[c].links[Len(app'[c].links)].initiator = app[c].isInitiator]_vars

(* The step is client c handling the room-users snapshot at the head of     *)
(* its inbox.                                                               *)
SnapshotStep(c) ==
  /\ inbox[c] # <<>>
  /\ Head(inbox[c]).type = "room-users"
  /\ app[c].snapshotDue
  /\ ~app'[c].snapshotDue

(* C20: handling the snapshot makes the client Initiator when the snapshot  *)
(* lists no member and Responder when it lists one or more, and leaves the  *)
(* connection state SIGNALING.                                              *)
C20_RoleFromSnapshot ==
  [][\A c \in Clients :
       SnapshotStep(c)
       => /\ app'[c].isInitiator = (Len(Head(inbox[c]).users) = 0)
          /\ app'[c].connectionState = "SIGNALING"]_vars

(* Two members of a room have handled their snapshots from DISCONNECTED:    *)
(* the one that saw nobody is Initiator, the one that saw a member is       *)
(* Responder, and both are in SIGNALING.                                    *)
C20_Witness ==
  \E a, b \in Clients :
    /\ a # b
    /\ app[a].currentRoom # "" /\ app[b].currentRoom = app[a].currentRoom
    /\ ~app[a].snapshotDue /\ ~app[b].snapshotDue
    /\ app[a].isInitiator /\ ~app[b].isInitiator
    /\ app[a].connectionState = "SIGNALING"
    /\ app[b].connectionState = "SIGNALING"
    /\ inbox[a] # <<>> /\ Head(inbox[a]).type = "user-connected"

(* ================== claims on recreation and sending ================== *)

(* The step is the reconnection timer of client c firing: a pending timer   *)
(* goes and a link is created.                                              *)
ReconnectTimerStep(c) ==
  /\ app'[c].timers # app[c].timers
  /\ app'[c].timers \subseteq app[c].timers
  /\ Len(app'[c].links) = Len(app[c].links) + 1

(* C21 (as claimed): when the reconnection timer fires in state             *)
(* RECONNECTING, the link it creates has the initiator flag of the link     *)
(* that failed, and the connection state becomes CONNECTING.                *)
C21_RecreateSameRole ==
  [][\A c \in Clients :
       (ReconnectTimerStep(c) /\ app[c].connectionState = "RECONNECTING")
       => /\ app'[c].links[Len(app'[c].links)].initiator =
               app[c].links[Len(app[c].links)].initiator
          /\ app'[c].connectionState = "CONNECTING"]_vars

(* The link peerRef holds is connected. *)
LinkConnected(s) ==
  /\ s.peerRef # Null
  /\ ~s.links[s.peerRef].destroyed
  /\ s.links[s.peerRef].connected

(* The step invokes sendFileDirectly at client c, from the Send button or   *)
(* from the auto-send timer of a drop.                                      *)
SendInvokedStep(c) ==
  \/ Len(app'[c].sends) > Len(app[c].sends)
  \/ Len(app'[c].dropTimers) < Len(app[c].dropTimers)

ChunkStep(c) ==
  /\ wire[c] # <<>>
  /\ wire'[c] = Tail(wire[c])
  /\ ~JSONParse(Head(wire[c])).ok

(* C23 (as claimed): once a transfer has been assembled, a chunk that       *)
(* arrives before any fresh metadata assembles nothing and is not added to  *)
(* the chunks of the completed transfer.                                    *)
C23_ClearedAfterAssembly ==
  [][\A c \in Clients :
       (ChunkStep(c) /\ app[c].metadataSeen /\ app[c].assemblies >= 1)
       => /\ app'[c].artifacts = app[c].artifacts
          /\ app'[c].fileChunks = app[c].fileChunks]_vars

(* The step takes the connected link away from client c. *)
LinkLostStep(c) == LinkConnected(app[c]) /\ ~LinkConnected(app'[c])

(* C24 (as claimed): when the link is lost while a receive is in progress,  *)
(* the receiving flag is cleared and the partial chunks and the byte count  *)
(* are dropped.                                                             *)
C24_LossAbortsReceive ==
  [][\A c \in Clients :
       (LinkLostStep(c) /\ app[c].receiving)
       => /\ ~app'[c].receiving
          /\ app'[c].fileChunks = <<>>
          /\ app'[c].receivedBytes = 0]_vars

(* The step delivers the payload at the head of the channel to the data     *)
(* handler of client c.                                                     *)
DataStep(c) == wire[c] # <<>> /\ wire'[c] = Tail(wire[c])

(* C25 (as claimed): the data handler leaves the links, the link reference  *)
(* and the connection state alone whatever the payload, and in a transfer   *)
(* opened by metadata of size S, whatever came before it, each binary       *)
(* payload within the S bytes is appended, and the one that completes the   *)
(* S bytes assembles an artifact of exactly the bytes received since the    *)
(* metadata.                                                                *)
C25_UsableAfterAnomalies ==
  [][\A c \in Clients : DataStep(c) =>
       LET data == Head(wire[c])
           received == app[c].receivedBytes + DataLength(data)
       IN /\ app'[c].links = app[c].links
          /\ app'[c].peerRef = app[c].peerRef
          /\ app'[c].connectionState = app[c].connectionState
          /\ (/\ ~data.text
              /\ app[c].metadataSeen
              /\ app[c].assemblies = 0
              /\ received <= app[c].totalFileSize)
             => /\ app'[c].fileChunks = Append(app[c].fileChunks, data)
                /\ received = app[c].totalFileSize
                     => /\ Len(app'[c].artifacts) = Len(app[c].artifacts) + 1
                        /\ app'[c].artifacts[Len(app'[c].artifacts)].bytes
                             = Concat(app'[c].fileChunks)
                        /\ Len(Concat(app'[c].fileChunks))
                             = app[c].totalFileSize]_vars

(* C26: a send whose abort signal is set writes nothing more once it has    *)
(* reached its next chunk boundary, and the run of sendNextChunk that finds *)
(* the signal set clears the sending flag.                                  *)
C26_AbortStops ==
  [][\A c \in Clients : \A k \in 1..Len(app[c].sends) :
       app[c].sends[k].aborted
       => /\ app'[c].sends[k].offset = app[c].sends[k].offset
          /\ app'[c].sends[k].pc # app[c].sends[k].pc
               => (app'[c].sends[k].pc = "aborted" /\ ~app'[c].sending)]_vars

(* The case C26 is about: the abort signal of some send is set. *)
C26_Aborted ==
  \E c \in Clients : \E k \in 1..Len(app[c].sends) : app[c].sends[k].aborted

(* The sends of client state s for which a transfer-accepted message has    *)
(* been received: the client registers handlers for 'connect',              *)
(* 'disconnect', 'room-users', 'user-connected', 'signal' and               *)
(* 'user-disconnected' only (lines 88-189), and sendFile hands the file     *)
(* straight to sendFileDirectly (lines 398-401), so no send is ever         *)
(* recorded as accepted.                                                    *)
AcceptedSends(s) == {k \in 1..Len(s.sends) : FALSE}

(* C27 (as claimed): every payload a client has written to the data channel *)
(* belongs to a send whose transfer request was accepted.                   *)
C27_ConsentBeforeData ==
  \A c \in Clients : \A i \in 1..Len(app[c].written) :
    app[c].written[i].send \in AcceptedSends(app[c])

(* ------------------ the older server's signal relay ------------------ *)

(* src/server/index.js lines 57-60: io.to(to).emit whatever `to` is; the   *)
(* older client sends every signal with to: null ("").                     *)
OldServerSignal(ib, joined, live, socket, to, signal) ==
  Emit(ib, IoTo(joined, live, to), Relayed("signal", socket, signal))

RelayOldSignal(c, to, signal) ==
  /\ c \in online
  /\ inbox' = OldServerSignal(inbox, socketRooms, online, c, to, signal)
  /\ InFlight' <= MaxInFlight
  /\ UNCHANGED <<app, wire, rooms, socketRooms, online>>

NextOldRelay ==
  \/ \E c \in Clients : ServerLeave(c)
  \/ \E c \in Clients : Received(c)
  \/ \E c \in Clients, to \in Clients \cup RoomIds \cup {""},
        signal \in RelayedSignals :
       RelayOldSignal(c, to, signal)

SpecOldRelay == InitServer /\ [][NextOldRelay]_vars

(* --------------------- the server's room membership ------------------- *)

(* Line 22: a socket connects to the server. *)
ServerConnection(c) ==
  /\ c \notin online
  /\ online' = online \cup {c}
  /\ UNCHANGED <<app, wire, rooms, socketRooms, inbox>>

(* Lines 26-54: a connected socket asks to join a room, whatever room it   *)
(* joined before.                                                          *)
ServerJoin(c, r) ==
  /\ c \in online
  /\ ServerJoinRoom(c, r)
  /\ InFlight' <= MaxInFlight + 1
  /\ UNCHANGED <<app, wire>>

NextMembership ==
  \/ \E c \in Clients : ServerConnection(c)
  \/ \E c \in Clients, r \in RoomIds : ServerJoin(c, r)
  \/ \E c \in Clients : ServerLeave(c)
  \/ \E c \in Clients : Received(c)

SpecMembership == Init /\ [][NextMembership]_vars

(* ======================= claims on the server's relays ================ *)

(* C28: in every state the server can be in, a transfer-accepted or a       *)
(* transfer-rejected from a connected socket that names a socket in `to`    *)
(* is put on that socket's connection alone, if it is connected, as one     *)
(* message carrying the decider's id as `from` and, for a rejection, the    *)
(* reason as given; every other connection is left as it was.               *)
C28_DecisionToTargetOnly ==
  \A d \in online, to \in Clients :
    /\ ServerTransferAccepted(inbox, socketRooms, online, d, to) =
         [s \in Clients |->
            IF s = to /\ to \in online
              THEN Append(inbox[s], [type |-> "transfer-accepted",
                                     users |-> <<>>, id |-> d, payload |-> ""])
              ELSE inbox[s]]
    /\ \A reason \in Reasons :
         ServerTransferRejected(inbox, socketRooms, online, d, to, reason) =
           [s \in Clients |->
              IF s = to /\ to \in online
                THEN Append(inbox[s], [type |-> "transfer-rejected",
                                       users |-> <<>>, id |-> d,
                                       payload |-> reason])
                ELSE inbox[s]]

(* Three sockets share a room; a rejection by c2 naming c1 has reached c1   *)
(* with its reason, and c3 has been sent nothing.                           *)
C28_Witness ==
  /\ socketRooms["c1"] = socketRooms["c2"]
  /\ socketRooms["c2"] = socketRooms["c3"]
  /\ socketRooms["c1"] # {}
  /\ inbox["c1"] = <<Relayed("transfer-rejected", "c2", "busy")>>
  /\ inbox["c2"] = <<>>
  /\ inbox["c3"] = <<>>
  /\ app["c2"].requests["c1"] = "decided"

(* C29 (as claimed): once socket d has emitted a decision for the latest    *)
(* transfer request of socket t, no further decision of d reaches t.        *)
C29_DecisionOnce ==
  [][\A d, t \in Clients :
       app[d].requests[t] = "decided"
       => ~ /\ Len(inbox'[t]) = Len(inbox[t]) + 1
            /\ inbox'[t][Len(inbox'[t])].id = d
            /\ inbox'[t][Len(inbox'[t])].type
                 \in {"transfer-accepted", "transfer-rejected"}]_vars

(* C30: in every state the server can be in, a signal from a connected      *)
(* socket that names no target is put once, as one message carrying the     *)
(* sender's id as `from` and the signal as given, on the connection of      *)
(* each other socket joined to the sender's room, and on no other.          *)
C30_BroadcastOnce ==
  \A c \in online, signal \in RelayedSignals :
    ServerSignal(inbox, socketRooms, online, c, "", signal) =
      [s \in Clients |->
         IF s # c /\ socketRooms[s] \cap socketRooms[c] # {}
           THEN Append(inbox[s], [type |-> "signal", users |-> <<>>,
                                  id |-> c, payload |-> signal])
           ELSE inbox[s]]

(* A signal of c1 has reached both other members of its room; in another    *)
(* reachable state it has reached c2 and not c3, which is in another room.  *)
C30_Witness ==
  /\ inbox["c2"] = <<Relayed("signal", "c1", "candidate")>>
  /\ inbox["c1"] = <<>>
  /\ \/ /\ socketRooms["c3"] = socketRooms["c1"]
        /\ inbox["c3"] = <<Relayed("signal", "c1", "candidate")>>
     \/ /\ socketRooms["c3"] # socketRooms["c1"]
        /\ socketRooms["c3"] # {}
        /\ inbox["c3"] = <<>>

(* ==================== claims on the server's rooms ==================== *)

(* C32: a socket that has disconnected is in no room's member set, and the  *)
(* rooms map holds no room whose member set is empty.                       *)
C32_DisconnectCleansRooms ==
  /\ \A c \in Clients \ online : \A r \in DOMAIN rooms : c \notin Members(r)
  /\ \A r \in DOMAIN rooms : rooms[r] # <<>>

(* c1 has gone from the room it shared with c2, which was told and is the   *)
(* only member still listed; no other room is kept.                         *)
C32_Witness ==
  /\ online = {"c2"}
  /\ DOMAIN rooms = {"r1"}
  /\ rooms["r1"] = <<"c2">>
  /\ \E i \in 1..Len(inbox["c2"]) :
       inbox["c2"][i] = Message("user-disconnected", <<>>, "c1")

(* C38 (as claimed): the rooms that list a connected socket as a member are *)
(* exactly the room it last joined, if it joined any.                       *)
C38_RoomsMapAgrees ==
  \A c \in online :
    {r \in DOMAIN rooms : c \in Members(r)} = socketRooms[c]

(* The step is the server answering a join-room of socket c: a room-users   *)
(* snapshot is put on c's connection.                                       *)
JoinAnswered(c) ==
  /\ Len(inbox'[c]) = Len(inbox[c]) + 1
  /\ inbox'[c][Len(inbox'[c])].type = "room-users"

(* C33 (as claimed): the join of socket c puts on c's connection one        *)
(* snapshot that lists, once each, exactly the other sockets joined to the  *)
(* room, and puts one user-connected(c) on the connection of each of those  *)
(* sockets and nothing on any other.                                        *)
C33_JoinNotifications ==
  [][\A c \in Clients : JoinAnswered(c) =>
       LET users == inbox'[c][Len(inbox'[c])].users
           others == {s \in Clients \ {c} : socketRooms'[s] = socketRooms'[c]}
       IN /\ inbox'[c] = Append(inbox[c], Message("room-users", users, ""))
          /\ {users[i] : i \in 1..Len(users)} = others
          /\ Len(users) = Cardinality(others)
          /\ \A s \in Clients \ {c} :
               inbox'[s] = IF s \in others
                             THEN Append(inbox[s],
                                         Message("user-connected", <<>>, c))
                             ELSE inbox[s]]_vars

(* ============== claims on the signaling connection and Leave ========== *)

(* The step is the client's socket to the signaling server connecting or    *)
(* disconnecting.                                                           *)
SocketStep(c) == app'[c].connected # app[c].connected

(* C34 (as claimed): when the socket to the signaling server is lost or     *)
(* made again while the link is connected and the state is CONNECTED, the   *)
(* state stays CONNECTED and the link is left as it is.                     *)
C34_ServerStepsBack ==
  [][\A c \in Clients :
       (/\ SocketStep(c)
        /\ app[c].connectionState = "CONNECTED"
        /\ LinkConnected(app[c]))
       => /\ app'[c].connectionState = "CONNECTED"
          /\ app'[c].links = app[c].links
          /\ app'[c].peerRef = app[c].peerRef]_vars

(* C35 (as claimed): with the older server, a signal emitted with to: null  *)
(* is put on the connection of every other socket joined to the sender's    *)
(* room.                                                                    *)
C35_OldServerBroadcasts ==
  \A c \in online, signal \in RelayedSignals :
    \A s \in Clients \ {c} :
      socketRooms[s] \cap socketRooms[c] # {}
      => OldServerSignal(inbox, socketRooms, online, c, "", signal)[s] =
           Append(inbox[s], Relayed("signal", c, signal))

(* C36 (as claimed): in no reachable state is a client's reconnecting flag  *)
(* set while it has no undestroyed link and no reconnection timer pending.  *)
C36_NeverStuck ==
  \A c \in Clients :
    ~ /\ app[c].isReconnecting
      /\ app[c].peerRef = Null
      /\ LiveLinks(app[c]) = {}
      /\ app[c].timers = {}

(* ================= claims on what creates a link ===================== *)

(* The step is client c handling 'user-disconnected' (lines 174-177): the   *)
(* whole handler is handlePeerDisconnection.                                *)
PeerLeftStep(c) ==
  /\ app'[c] # app[c]
  /\ app'[c] = handlePeerDisconnection(app[c])

(* C40 (as claimed): once 'user-disconnected' has been handled no link is   *)
(* created until a 'user-connected' or a signal arrives: a reconnection     *)
(* timer that was pending when the peer left creates no link when it fires. *)
C40_PeerLeftStopsTimer ==
  [][\A c \in Clients :
       PeerLeftStep(c)
       => \A t \in app'[c].timers :
            Len(ReconnectTimerCallback(app'[c], t).links) = Len(app'[c].links)]_vars

(* C39 (as claimed): a client that has left its room (no current room)      *)
(* creates no link and stays DISCONNECTED until it joins again, whatever    *)
(* 'user-connected' and 'signal' messages still arrive for the room.        *)
C39_LeftStaysIdle ==
  [][\A c \in Clients :
       (app[c].currentRoom = "" /\ app'[c].currentRoom = "")
       => /\ Len(app'[c].links) = Len(app[c].links)
          /\ app[c].connectionState = "DISCONNECTED"
             => app'[c].connectionState = "DISCONNECTED"]_vars

(* ======================= claims on termination ======================= *)

(* What the run time is bound to do once it is due: the 100 ms timer of a   *)
(* drop (line 439), the promise of file.arrayBuffer() (line 476), the 0 ms  *)
(* timer between chunks (line 554), 'drain' on a link that still exists     *)
(* (line 558) and the reconnection timer (line 221).  Nothing obliges the   *)
(* user to drop or click, nor the link to fail.                             *)
SpecSendLossFair ==
  /\ SpecSendLoss
  /\ WF_vars(DropTimer("c1"))
  /\ WF_vars(\E k \in 1..MaxSends, outcome \in {"throw", "true", "false"} :
               ArrayBufferResolved("c1", k, outcome))
  /\ WF_vars(\E k \in 1..MaxSends, outcome \in {"throw", "true", "false"} :
               ChunkTimer("c1", k, outcome))
  /\ WF_vars(\E l \in 1..MaxLinks : Drain("c1", l))
  /\ WF_vars(\E t \in [id : 1..MaxTimers, initiator : BOOLEAN] :
               ReconnectTimer("c1", t))

(* C37 (as claimed): every send that has started ends: whenever the sending *)
(* flag is set it is eventually cleared, also when the link is destroyed    *)
(* while the send waits for 'drain'.                                        *)
C37_SendEnds == \A c \in Clients : app[c].sending ~> ~app[c].sending

(* ================= a third participant joins the room ================= *)

(* c1 and c2 have joined r1, c1 first; the arrival of c2 has been sent to   *)
(* c1 and not yet handled.  c3 is connected and in no room.                 *)
InitThird ==
  /\ app = [c \in Clients |->
              IF c = "c3"
                THEN [AppInit EXCEPT !.connected = TRUE, !.socket = TRUE]
                ELSE [AppInit EXCEPT !.connected = TRUE, !.socket = TRUE,
                                     !.currentRoom = "r1",
                                     !.inServerRoom = TRUE,
                                     !.connectionState = "SIGNALING",
                                     !.isInitiator = (c = "c1"),
                                     !.joins = 1]]
  /\ wire = [c \in Clients |-> <<>>]
  /\ rooms = [r \in {"r1"} |-> <<"c1", "c2">>]
  /\ socketRooms = [c \in Clients |-> IF c = "c3" THEN {} ELSE {"r1"}]
  /\ online = Clients
  /\ inbox = [c \in Clients |->
                IF c = "c1" THEN <<Message("user-connected", <<>>, "c2")>>
                ELSE <<>>]

(* The link's 'signal' event (lines 246-249): an initiator link emits its   *)
(* offer, a responder link its answer once it has been given an offer; the  *)
(* handler emits it with to: null and the server relays it (part_002,       *)
(* lines 56-72).                                                            *)
LinkSignal(c, l) ==
  /\ l \in LiveLinks(app[c])
  /\ ~app[c].links[l].emitted
  /\ \/ app[c].links[l].initiator
     \/ \E i \in 1..Len(app[c].links[l].signalled) :
          app[c].links[l].signalled[i].type = "offer"
  /\ Step(c, [app[c] EXCEPT !.links[l].emitted = TRUE])
  /\ inbox' = ServerSignal(inbox, socketRooms, online, c, "",
                           IF app[c].links[l].initiator THEN "offer"
                           ELSE "answer")
  /\ InFlight' <= 2 * MaxInFlight
  /\ UNCHANGED <<wire, rooms, socketRooms, online>>

DeliverSignal(c) ==
  /\ inbox[c] # <<>>
  /\ Head(inbox[c]).type = "signal"
  /\ Step(c, [OnSignal(app[c], [type |-> Head(inbox[c]).payload,
                                seq |-> Arrived(app[c])])
                EXCEPT !.signalTick = ~@])
  /\ Handled(c)

NextThird ==
  \/ RoomJoin("c3", "r1") /\ InFlight' <= 2 * MaxInFlight
  \/ \E c \in Clients : DeliverRoomUsers(c)
  \/ \E c \in Clients : DeliverUserConnected(c)
  \/ \E c \in Clients : DeliverSignal(c)
  \/ \E c \in Clients, l \in 1..MaxLinks : LinkSignal(c, l)
  \/ \E c \in Clients, l \in 1..MaxLinks : PeerConnect(c, l)

SpecThird == InitThird /\ [][NextThird]_vars

(* C31 (as claimed): once c3 is in the room of c1 and c2, nothing the       *)
(* server sends them on its behalf (its arrival, a signal it produced)      *)
(* touches the link they have: handling it leaves every link of the client  *)
(* as it was, and the client's reference to its link too.                   *)
C31_ThirdLeavesLinkAlone ==
  [][\A c \in {"c1", "c2"} :
       (/\ inbox[c] # <<>>
        /\ inbox'[c] = Tail(inbox[c])
        /\ Head(inbox[c]).id = "c3"
        /\ app[c].peerRef # Null)
       => /\ app'[c].links = app[c].links
          /\ app'[c].peerRef = app[c].peerRef]_vars


====
